---------------------------- MODULE Spec2Model ----------------------------
(***************************************************************************)
(* A model of the capacity-estimation code of QuLearn (package qml_mor):   *)
(*   fat.py      fat_shattering_dim and check_shattering                   *)
(*   trainer.py  RegressionTrainer.train                                   *)
(*   models.py   IQPEReuploadSU2Parity                                     *)
(* and of memory (qulearn.memory), whose search is used by the tests.      *)
(* Reals are modelled by small integers; a stagnation threshold is a       *)
(* fraction <<numerator, denominator>>.                                    *)
(***************************************************************************)
EXTENDS Integers, Sequences, FiniteSets, TLC

(***************************************************************************)
(* Bounds of the model.                                                    *)
(***************************************************************************)
MaxDim == 3
MaxStep == 2
MaxSamples == 2
MaxEpochs == 3
MaxLoss == 2
MaxStagCount == 2
MaxBundle == 4
MaxN == 3
MaxStopCount == 2

\* values the margin, a prediction and an offset level take
Gammas == {0, 1}
PredVals == {0, 1}
RVals == {0, 1}

Range(n) == 0 .. (n - 1)

\* Row(n, k, v): a row of n entries, v before index k and 1 - v from k on
Row(n, k, v) == [i \in Range(n) |-> IF i < k THEN v ELSE 1 - v]

\* the labelings datagen.gen_data(d) draws a row of b from
BRows(n) == {Row(n, k, v) : k \in 0 .. 1, v \in {0, 1}}

\* the offset levels datagen.gen_data(d) draws a row of r from
RRows(n) == {[i \in Range(n) |-> c] : c \in RVals}

\* the predictions of the n points a fit produces
PredRows(n) == [Range(n) -> PredVals]

VARIABLES
    \* fat_shattering_dim: arguments, loop variable, position, result
    dmin, dmax, dstep, gamma, d, pc, fatResult, warnings,
    \* history: the sizes check_shattering was called at, with what it returned
    tested,
    \* datagen: number of offset samples and of labeling samples it generates
    Sr, Sb,
    \* check_shattering: data, loop variables, return value
    b, r, sr, sb, shattered, chkResult,
    \* history: the fits issued by the current check_shattering call
    fits,
    \* the trainable parameters the optimizer and the model share, named by
    \* the fit that wrote them last: its size d and labeling sb
    optParams,
    \* RegressionTrainer: the constructor's arguments
    num_epochs, opt_stop, stagnation_threshold, stagnation_count, best_loss,
    \* RegressionTrainer.train: locals, position, outcome, returned value
    \* (prev_loss is <<>> for None and <<x>> for the loss x)
    epoch, tloss, prev_loss, stag_counter, best_tloss, best_vloss, best_mre,
    best_tparams, best_vparams, best_mreparams, tpc, outcome, final, twarnings,
    \* the model's parameters and the files of saved parameters
    params, saved,
    \* history: the training loss of every epoch executed
    tlosses,
    \* IQPEReuploadSU2Parity: whether the object exists, its private fields,
    \* and the last call made on it
    constructed, init_theta, theta, W, omega, mcall,
    \* memory: arguments, loop variable, early-stop state, list, position
    Nmin, Nmax, stop_count, N, memBest, memCount, memList, mempc

fatVars == <<dmin, dmax, dstep, gamma, d, pc, fatResult, warnings, tested,
             Sr, Sb, b, r, sr, sb, shattered, chkResult, fits, optParams>>

trainVars == <<num_epochs, opt_stop, stagnation_threshold, stagnation_count,
               best_loss, epoch, tloss, prev_loss, stag_counter, best_tloss,
               best_vloss, best_mre, best_tparams, best_vparams, best_mreparams,
               tpc, outcome, final, twarnings, params, saved, tlosses>>

modelVars == <<constructed, init_theta, theta, W, omega, mcall>>

memVars == <<Nmin, Nmax, stop_count, N, memBest, memCount, memList, mempc>>

vars == <<fatVars, trainVars, modelVars, memVars>>

\* the variables of the other entry points
notFat == <<trainVars, modelVars, memVars>>
notTrain == <<fatVars, modelVars, memVars>>
notModel == <<fatVars, trainVars, memVars>>
notMem == <<fatVars, trainVars, modelVars>>

None == "None"

(***************************************************************************)
(* check_shattering                                                        *)
(***************************************************************************)

\* variant of LabelFails: strict comparisons, a prediction on the margin fails
LabelFailsStrict(bi, pred, ri, g) ==
    \/ bi = 1 /\ ~(pred > ri + g)
    \/ bi = 0 /\ ~(pred < ri - g)

\* fat.py:90 and 93: the point i of a labeling is not realized
LabelFails(bi, pred, ri, g) ==
    \/ bi = 1 /\ ~(pred >= ri + g)
    \/ bi = 0 /\ ~(pred <= ri - g)

\* fat.py:89-95: the loop over the predictions from point i on; the value of
\* `shattered` it leaves (the first failing point breaks the loop)
RECURSIVE PointsLoop(_, _, _, _, _, _)
PointsLoop(i, n, predictions, brow, rrow, g) ==
    IF i >= n THEN TRUE
    ELSE IF LabelFails(brow[i], predictions[i], rrow[i], g) THEN FALSE
    ELSE PointsLoop(i + 1, n, predictions, brow, rrow, g)

\* the margin condition of a labeling, as the documentation states it
Realizes(n, predictions, brow, rrow, g) ==
    \A i \in Range(n) :
        /\ brow[i] = 1 => predictions[i] >= rrow[i] + g
        /\ brow[i] = 0 => predictions[i] <= rrow[i] - g

\* fat.py:82-84 and 100-103: control reaches the head of the outer loop with
\* offset sample srNew: return False when the samples are used up, return
\* True when there is no labeling to fit, else fit the first labeling
EnterOffset(srNew) ==
    IF srNew >= Sr
    THEN /\ pc' = "ret" /\ chkResult' = FALSE
         /\ UNCHANGED <<sr, sb, shattered>>
    ELSE IF Sb = 0
    THEN /\ pc' = "ret" /\ chkResult' = TRUE
         /\ sr' = srNew /\ sb' = 0 /\ shattered' = TRUE
    ELSE /\ pc' = "fit" /\ chkResult' = None
         /\ sr' = srNew /\ sb' = 0 /\ shattered' = TRUE

\* the parameters as constructed, before any fit
InitialParams == [d |-> 0, sb |-> 0]

\* variant of ParamsOnEntry: check_shattering starts every size from the
\* parameters as constructed
ParamsOnEntryReset(p) == InitialParams

\* fat.py:76-82: check_shattering reads the data and enters its loops; no
\* statement of it assigns the parameters
ParamsOnEntry(p) == p

\* fat.py:85-86: opt.optimize fits the parameters it holds to labeling lab of
\* size dd, starting from their current values p, and leaves the fitted
\* values in them
Optimize(p, dd, lab) == [d |-> dd, sb |-> lab]

\* fat.py:45-46 and 76-84: the loop of fat_shattering_dim has a size d left:
\* it calls check_shattering(d), which generates the data of size d
CallCheckShattering ==
    /\ UNCHANGED notFat
    /\ pc = "head"
    /\ d <= dmax
    /\ \E bt \in [Range(Sb) -> BRows(d)], rt \in [Range(Sr) -> RRows(d)] :
          /\ b' = bt
          /\ r' = rt
    /\ fits' = <<>>
    /\ optParams' = ParamsOnEntry(optParams)
    /\ EnterOffset(0)
    /\ UNCHANGED <<dmin, dmax, dstep, gamma, d, fatResult, warnings, tested, Sr, Sb>>

\* variant of FitControl: no break at fat.py:97-98, the remaining labelings of
\* the offset sample are fitted after a failure
FitKeepGoing(ok) ==
    IF sb + 1 < Sb
    THEN /\ pc' = "fit" /\ chkResult' = None
         /\ sb' = sb + 1 /\ shattered' = ok /\ UNCHANGED sr
    ELSE IF ok
    THEN /\ pc' = "ret" /\ chkResult' = TRUE
         /\ shattered' = TRUE /\ UNCHANGED <<sr, sb>>
    ELSE EnterOffset(sr + 1)

\* fat.py:97-101: where control goes after the margins of a fit were tested
FitControl(ok) ==
    IF ~ok
    THEN \* fat.py:97-98 break, 100 not shattered: next offset sample
         EnterOffset(sr + 1)
    ELSE IF sb + 1 < Sb
    THEN /\ pc' = "fit" /\ chkResult' = None
         /\ sb' = sb + 1 /\ shattered' = TRUE /\ UNCHANGED sr
    ELSE \* fat.py:100-101
         /\ pc' = "ret" /\ chkResult' = TRUE
         /\ shattered' = TRUE /\ UNCHANGED <<sr, sb>>

\* fat.py:85-101: one pass of the inner loop: fit labeling sb of offset sample
\* sr, predict, test the margins, and move on
Fit ==
    /\ UNCHANGED notFat
    /\ pc = "fit"
    /\ \E predictions \in PredRows(d) :
          LET ok == PointsLoop(0, d, predictions, b[sb], r[sr], gamma)
          IN  /\ fits' = Append(fits,
                    [sr |-> sr, sb |-> sb,
                     realized |-> Realizes(d, predictions, b[sb], r[sr], gamma),
                     start |-> optParams])
              /\ FitControl(ok)
    /\ optParams' = Optimize(optParams, d, sb)
    /\ UNCHANGED <<dmin, dmax, dstep, gamma, d, fatResult, warnings, tested,
                   Sr, Sb, b, r>>

(***************************************************************************)
(* fat_shattering_dim                                                      *)
(***************************************************************************)

\* fat.py:46: check_shattering has returned, its locals are gone
CheckFrameDropped ==
    /\ b' = <<>>
    /\ r' = <<>>
    /\ sr' = 0
    /\ sb' = 0
    /\ shattered' = TRUE
    /\ chkResult' = None
    /\ fits' = <<>>

\* variant of FailValue: the last size tested before dd
FailValueStep(dd, step) == dd - step

\* fat.py:52: the value returned when size dd is not shattered
FailValue(dd, step) == dd - 1

\* variant of NextSize: the step is ignored
NextSizeUnit(dd, step) == dd + 1

\* fat.py:45: the size after dd in range(dmin, dmax + 1, dstep)
NextSize(dd, step) == dd + step

\* variant of FailWarnings: no warning
FailWarningsNever(dd) == warnings

\* fat.py:49-50: the warnings after size dd was not shattered

FailWarnings(dd) ==
    IF dd = dmin THEN warnings \cup {"Stopped at dmin"} ELSE warnings

\* fat.py:48-52: check_shattering returned False
NotShattered ==
    /\ UNCHANGED notFat
    /\ pc = "ret"
    /\ chkResult = FALSE
    /\ tested' = Append(tested, <<d, FALSE>>)
    /\ warnings' = FailWarnings(d)
    /\ fatResult' = FailValue(d, dstep)
    /\ pc' = "done"
    /\ CheckFrameDropped
    /\ UNCHANGED <<dmin, dmax, dstep, gamma, d, Sr, Sb, optParams>>

\* fat.py:45-48: check_shattering returned True: on to the next size
Shattered ==
    /\ UNCHANGED notFat
    /\ pc = "ret"
    /\ chkResult = TRUE
    /\ tested' = Append(tested, <<d, TRUE>>)
    /\ d' = NextSize(d, dstep)
    /\ pc' = "head"
    /\ CheckFrameDropped
    /\ UNCHANGED <<dmin, dmax, dstep, gamma, fatResult, warnings, Sr, Sb,
                   optParams>>

\* variant of ReachedDmax: returns the last size tested
ReachedDmaxLastSize ==
    /\ UNCHANGED notFat
    /\ pc = "head"
    /\ d > dmax
    /\ warnings' = warnings \cup {"Reached dmax"}
    /\ fatResult' = d - dstep
    /\ pc' = "done"
    /\ UNCHANGED <<dmin, dmax, dstep, gamma, d, tested, Sr, Sb, b, r, sr, sb,
                   shattered, chkResult, fits, optParams>>

\* fat.py:54-55: the range is used up
ReachedDmax ==
    /\ UNCHANGED notFat
    /\ pc = "head"
    /\ d > dmax
    /\ warnings' = warnings \cup {"Reached dmax"}
    /\ fatResult' = dmax
    /\ pc' = "done"
    /\ UNCHANGED <<dmin, dmax, dstep, gamma, d, tested, Sr, Sb, b, r, sr, sb,
                   shattered, chkResult, fits, optParams>>

FatInit ==
    /\ dmin \in 1 .. MaxDim
    /\ dmax \in 1 .. MaxDim
    /\ dstep \in 1 .. MaxStep
    /\ gamma \in Gammas
    /\ Sr \in 0 .. MaxSamples
    /\ Sb \in 0 .. MaxSamples
    /\ d = dmin
    /\ pc = "head"
    /\ fatResult = None
    /\ warnings = {}
    /\ tested = <<>>
    /\ b = <<>>
    /\ r = <<>>
    /\ sr = 0
    /\ sb = 0
    /\ shattered = TRUE
    /\ chkResult = None
    /\ fits = <<>>
    /\ optParams = InitialParams

FatNext ==
    \/ CallCheckShattering
    \/ Fit
    \/ NotShattered
    \/ Shattered
    \/ ReachedDmax


(***************************************************************************)
(* RegressionTrainer.train                                                 *)
(***************************************************************************)

\* the losses an epoch produces, the values of opt_stop, and the stagnation
\* thresholds <<numerator, denominator>>
Losses == 0 .. MaxLoss
ValidLosses == {0, 1}
OptStops == {-1, 0, 1}
Thresholds == {<<0, 1>>, <<1, 2>>, <<1, 1>>}

\* trainer.py:155-157: float("inf"), above every loss
Inf == MaxLoss + 1

\* trainer.py:152-154, 178, 182, 186: model.state_dict().copy() taken at the end
\* of epoch e (0: before the loop). The copy is shallow and the tensors of a
\* state_dict share their storage with the parameters, which the optimizer
\* updates in place: the tensors a checkpoint holds are the live parameters.
StateDictCopy(e) == [taken |-> e]

\* the parameter values read through a checkpoint
Tensors(ckpt) == params

\* variant of BelowThreshold: a decrease equal to the threshold counts
BelowThresholdOrEqual(prev, cur, thr) ==
    (prev - cur) * thr[2] <= thr[1] * prev

\* trainer.py:192, 194: loss_delta < stagnation_threshold, for prev > 0
BelowThreshold(prev, cur, thr) ==
    (prev - cur) * thr[2] < thr[1] * prev

\* variant of OptStopReached: a loss equal to opt_stop does not stop the loop
OptStopReachedStrict(tl, stop) == tl < stop

\* trainer.py:188: the training loss of the epoch meets the opt_stop criterion
OptStopReached(tl, stop) == tl <= stop

\* trainer.py:176, 180, 184: a loss improves on the best one
Improves(cur, best) == cur < best

\* variant of TracksEpoch: the opt_stop test precedes the update of the best
\* losses, the epoch that stops the loop is not tracked
TracksEpochUnlessStopped(stops) == ~stops

\* trainer.py:175-189: the best losses are updated before the opt_stop test,
\* on every epoch, whether or not it stops the loop

TracksEpoch(stops) == TRUE

\* trainer.py:217-219: the value train returns
FinalLoss(last, best) == IF best_loss THEN best ELSE last

\* trainer.py:158-215: one pass of the loop over the epochs
TrainEpoch ==
    /\ UNCHANGED notTrain
    /\ tpc = "loop"
    /\ outcome = "Running"
    /\ epoch < num_epochs
    /\ \E tl \in Losses, vloss \in ValidLosses, mre \in ValidLosses :
          LET optStop == OptStopReached(tl, opt_stop)
              track == best_loss /\ TracksEpoch(optStop)
              bt == track /\ Improves(tl, best_tloss)
              bv == track /\ Improves(vloss, best_vloss)
              bm == track /\ Improves(mre, best_mre)
              divZero == ~optStop /\ prev_loss # <<>> /\ prev_loss[1] = 0
              counted == ~optStop /\ prev_loss # <<>> /\ ~divZero
              counter == IF ~counted THEN stag_counter
                         ELSE IF BelowThreshold(prev_loss[1], tl, stagnation_threshold)
                              THEN stag_counter + 1
                              ELSE 0
              stagnated == counted /\ counter >= stagnation_count
          IN  \* 159: self._train_epoch()
              /\ tloss' = tl
              /\ tlosses' = Append(tlosses, tl)
              /\ params' = params + 1
              \* 175-186
              /\ best_tloss' = (IF bt THEN tl ELSE best_tloss)
              /\ best_tparams' = (IF bt THEN StateDictCopy(epoch + 1) ELSE best_tparams)
              /\ best_vloss' = (IF bv THEN vloss ELSE best_vloss)
              /\ best_vparams' = (IF bv THEN StateDictCopy(epoch + 1) ELSE best_vparams)
              /\ best_mre' = (IF bm THEN mre ELSE best_mre)
              /\ best_mreparams' = (IF bm THEN StateDictCopy(epoch + 1) ELSE best_mreparams)
              \* 188-209
              /\ stag_counter' = counter
              /\ twarnings' = (IF stagnated THEN twarnings \cup {"Stopping early"}
                               ELSE twarnings)
              /\ prev_loss' = (IF optStop \/ divZero \/ stagnated THEN prev_loss ELSE <<tl>>)
              /\ outcome' = (IF optStop THEN "Stopped(opt_stop)"
                             ELSE IF divZero THEN "ZeroDivisionError"
                             ELSE IF stagnated THEN "Stopped(stagnation)"
                             ELSE IF epoch + 1 = num_epochs THEN "Completed"
                             ELSE "Running")
              /\ tpc' = (IF divZero THEN "raised" ELSE "loop")
              /\ epoch' = (IF optStop \/ divZero \/ stagnated THEN epoch ELSE epoch + 1)
    /\ UNCHANGED <<num_epochs, opt_stop, stagnation_threshold, stagnation_count,
                   best_loss, final, saved>>

\* trainer.py:217-229: after the loop
TrainReturn ==
    /\ UNCHANGED notTrain
    /\ tpc = "loop"
    /\ outcome \in {"Stopped(opt_stop)", "Stopped(stagnation)", "Completed"}
    /\ IF tlosses = <<>>
       THEN \* 217: tloss is not bound when no epoch ran
            /\ tpc' = "raised"
            /\ outcome' = "UnboundLocalError"
            /\ UNCHANGED <<final, params, saved>>
       ELSE /\ tpc' = "done"
            /\ final' = FinalLoss(tloss, best_tloss)
            /\ params' = (IF best_loss THEN Tensors(best_tparams) ELSE params)
            /\ saved' = (IF best_loss
                         THEN [besttrain |-> Tensors(best_tparams),
                               bestval |-> Tensors(best_vparams),
                               bestmre |-> Tensors(best_mreparams)]
                         ELSE saved)
            /\ UNCHANGED outcome
    /\ UNCHANGED <<num_epochs, opt_stop, stagnation_threshold, stagnation_count,
                   best_loss, epoch, tloss, prev_loss, stag_counter, best_tloss,
                   best_vloss, best_mre, best_tparams, best_vparams,
                   best_mreparams, twarnings, tlosses>>

TrainInit ==
    /\ num_epochs \in 0 .. MaxEpochs
    /\ opt_stop \in OptStops
    /\ stagnation_threshold \in Thresholds
    /\ stagnation_count \in 0 .. MaxStagCount
    /\ best_loss \in BOOLEAN
    /\ epoch = 0
    /\ tloss = None
    /\ prev_loss = <<>>
    /\ stag_counter = 0
    /\ best_tloss = Inf
    /\ best_vloss = Inf
    /\ best_mre = Inf
    /\ best_tparams = StateDictCopy(0)
    /\ best_vparams = StateDictCopy(0)
    /\ best_mreparams = StateDictCopy(0)
    /\ tpc = "loop"
    /\ outcome = (IF num_epochs = 0 THEN "Completed" ELSE "Running")
    /\ final = None
    /\ twarnings = {}
    /\ params = 0
    /\ saved = None
    /\ tlosses = <<>>

\* train is not running
TrainIdle ==
    /\ num_epochs = 0
    /\ opt_stop = 0
    /\ stagnation_threshold = <<0, 1>>
    /\ stagnation_count = 0
    /\ best_loss = FALSE
    /\ epoch = 0
    /\ tloss = None
    /\ prev_loss = <<>>
    /\ stag_counter = 0
    /\ best_tloss = Inf
    /\ best_vloss = Inf
    /\ best_mre = Inf
    /\ best_tparams = StateDictCopy(0)
    /\ best_vparams = StateDictCopy(0)
    /\ best_mreparams = StateDictCopy(0)
    /\ tpc = "idle"
    /\ outcome = None
    /\ final = None
    /\ twarnings = {}
    /\ params = 0
    /\ saved = None
    /\ tlosses = <<>>

TrainNext ==
    \/ TrainEpoch
    \/ TrainReturn

(***************************************************************************)
(* IQPEReuploadSU2Parity.  A tensor is modelled by its number of           *)
(* dimensions, a parameter bundle by the sequence of its tensors.          *)
(***************************************************************************)
\* the numbers of dimensions of the tensors passed: W, init_theta, theta
Tensor == {1, 2, 4}

Bundles == UNION {[1 .. n -> Tensor] : n \in 0 .. MaxBundle}

Omegas == {0, 1}

ArityError == "ValueError: Parameters must be a list of 3 tensors"

\* variant of ArityOk: a longer bundle is accepted
ArityOkAtLeast(p) == Len(p) >= 3

\* models.py:58, 84, 116: len(params) != 3 is rejected
ArityOk(p) == Len(p) = 3

\* a call: the operation, the length of the bundle passed, the exception
\* raised and the value returned
Call(op, p, raised, returned) ==
    [op |-> op, nparams |-> Len(p), raised |-> raised, returned |-> returned]

\* models.py:50-65
Construct ==
    /\ UNCHANGED notModel
    /\ \E p \in Bundles, om \in Omegas :
          IF ~ArityOk(p)
          THEN /\ mcall' = Call("__init__", p, ArityError, None)
               /\ UNCHANGED <<constructed, init_theta, theta, W, omega>>
          ELSE /\ mcall' = Call("__init__", p, None, None)
               /\ constructed' = TRUE
               /\ init_theta' = p[1]
               /\ theta' = p[2]
               /\ W' = p[3]
               /\ omega' = om

\* models.py:104-121
ParamsSetter ==
    /\ UNCHANGED notModel
    /\ constructed
    /\ \E p \in Bundles :
          IF ~ArityOk(p)
          THEN /\ mcall' = Call("params.setter", p, ArityError, None)
               /\ UNCHANGED <<constructed, init_theta, theta, W, omega>>
          ELSE /\ mcall' = Call("params.setter", p, None, None)
               /\ init_theta' = p[1]
               /\ theta' = p[2]
               /\ W' = p[3]
               /\ UNCHANGED <<constructed, omega>>

\* models.py:93-102
ParamsGetter ==
    /\ UNCHANGED notModel
    /\ constructed
    /\ mcall' = Call("params", <<>>, None, <<init_theta, theta, W>>)
    /\ UNCHANGED <<constructed, init_theta, theta, W, omega>>

\* models.py:166-171 and 192: the shape checks of iqpe_reupload_su2_parity
IqpeReuploadSu2Parity(it, th) ==
    IF it # 2 THEN [raised |-> "ValueError: Initial theta must be a 2-dim tensor",
                    returned |-> None]
    ELSE IF th # 4 THEN [raised |-> "ValueError: Theta must be a 4-dim tensor",
                         returned |-> None]
    ELSE [raised |-> None, returned |-> "expval"]

\* models.py:67-91
QFunction ==
    /\ UNCHANGED notModel
    /\ constructed
    /\ \E p \in Bundles :
          IF ~ArityOk(p)
          THEN mcall' = Call("qfunction", p, ArityError, None)
          ELSE LET res == IqpeReuploadSu2Parity(p[1], p[2])
               IN  mcall' = Call("qfunction", p, res.raised, res.returned)
    /\ UNCHANGED <<constructed, init_theta, theta, W, omega>>

\* models.py:134-143
OmegaSetter ==
    /\ UNCHANGED notModel
    /\ constructed
    /\ \E om \in Omegas : omega' = om
    /\ mcall' = Call("omega.setter", <<>>, None, None)
    /\ UNCHANGED <<constructed, init_theta, theta, W>>

\* no object, no call yet
ModelInit ==
    /\ constructed = FALSE
    /\ init_theta = None
    /\ theta = None
    /\ W = None
    /\ omega = None
    /\ mcall = Call(None, <<>>, None, None)

ModelNext ==
    \/ Construct
    \/ ParamsSetter
    \/ ParamsGetter
    \/ QFunction
    \/ OmegaSetter

(***************************************************************************)
(* memory (module qulearn.memory): for each sample count N from Nmin to    *)
(* Nmax, fit a random data set of size N and record (N, training loss,     *)
(* validation loss, MRE); stop early once the capacity has not improved    *)
(* for stop_count consecutive N.                                           *)
(***************************************************************************)

\* variant of MemoryFirstSize: the search skips Nmin
MemoryFirstSizeAfter(nmin) == nmin + 1

\* the first sample count of the search
MemoryFirstSize(nmin) == nmin

\* one sample count: generate, train, record, then the early-stop policy
MemoryStep ==
    /\ UNCHANGED notMem
    /\ mempc = "loop"
    /\ N <= Nmax
    /\ \E tl \in Losses, vl \in ValidLosses, mre \in ValidLosses :
          LET improved == mre < memBest
              count == IF improved THEN 0 ELSE memCount + 1
          IN  /\ memList' = Append(memList, <<N, tl, vl, mre>>)
              /\ memBest' = (IF improved THEN mre ELSE memBest)
              /\ memCount' = count
              /\ IF count >= stop_count
                 THEN mempc' = "stopped" /\ UNCHANGED N
                 ELSE mempc' = "loop" /\ N' = N + 1
    /\ UNCHANGED <<Nmin, Nmax, stop_count>>

\* the search is over: the list is returned
MemoryReturn ==
    /\ UNCHANGED notMem
    /\ \/ mempc = "loop" /\ N > Nmax
       \/ mempc = "stopped"
    /\ mempc' = "done"
    /\ UNCHANGED <<Nmin, Nmax, stop_count, N, memBest, memCount, memList>>

MemoryInit ==
    /\ Nmin \in 1 .. MaxN
    /\ Nmax \in 1 .. MaxN
    /\ stop_count \in 1 .. MaxStopCount
    /\ N = MemoryFirstSize(Nmin)
    /\ memBest = Inf
    /\ memCount = 0
    /\ memList = <<>>
    /\ mempc = "loop"

\* memory is not running
MemoryIdle ==
    /\ Nmin = 1 /\ Nmax = 1 /\ stop_count = 1
    /\ N = 1
    /\ memBest = Inf
    /\ memCount = 0
    /\ memList = <<>>
    /\ mempc = "idle"

MemoryNext ==
    \/ MemoryStep
    \/ MemoryReturn

\* fat_shattering_dim is not running
FatIdle ==
    /\ dmin = 1 /\ dmax = 1 /\ dstep = 1 /\ gamma = 0 /\ Sr = 0 /\ Sb = 0
    /\ d = 1
    /\ pc = "idle"
    /\ fatResult = None
    /\ warnings = {}
    /\ tested = <<>>
    /\ b = <<>>
    /\ r = <<>>
    /\ sr = 0
    /\ sb = 0
    /\ shattered = TRUE
    /\ chkResult = None
    /\ fits = <<>>
    /\ optParams = InitialParams

(***************************************************************************)
(* Specifications: one per entry point.                                    *)
(***************************************************************************)
FatStart == FatInit /\ TrainIdle /\ ModelInit /\ MemoryIdle

FatSpec == FatStart /\ [][FatNext]_vars

TrainStart == TrainInit /\ FatIdle /\ ModelInit /\ MemoryIdle

TrainSpec == TrainStart /\ [][TrainNext]_vars

ModelStart == ModelInit /\ FatIdle /\ TrainIdle /\ MemoryIdle

ModelSpec == ModelStart /\ [][ModelNext]_vars

MemoryStart == MemoryInit /\ FatIdle /\ TrainIdle /\ ModelInit

MemorySpec == MemoryStart /\ [][MemoryNext]_vars

(***************************************************************************)
(* Properties of fat_shattering_dim and check_shattering (under FatSpec).  *)
(***************************************************************************)

Last(q) == q[Len(q)]

\* the search stopped at a size that check_shattering did not shatter
StoppedAtFailure ==
    pc = "done" /\ Len(tested) >= 1 /\ Last(tested)[2] = FALSE

\* C1: if check_shattering returns False at a size d in dmin..dmax and returned
\* True at every size tested before d, fat_shattering_dim returns d - 1.
C1_ExactBoundary ==
    pc = "done" =>
        \A k \in 1 .. Len(tested) :
            (/\ tested[k][2] = FALSE
             /\ tested[k][1] >= dmin /\ tested[k][1] <= dmax
             /\ \A j \in 1 .. (k - 1) : tested[j][2] = TRUE)
            => fatResult = tested[k][1] - 1

C1_Witness ==
    /\ StoppedAtFailure
    /\ Len(tested) >= 2
    /\ dstep = 2
    /\ fatResult = Last(tested)[1] - 1

\* C2 as stated: when the first failing size is some d > dmin, the function
\* returns d - dstep, and that value is the last size at which check_shattering
\* was called and returned True.
C2_Original ==
    (StoppedAtFailure /\ Last(tested)[1] > dmin) =>
        /\ fatResult = Last(tested)[1] - dstep
        /\ tested[Len(tested) - 1] = <<fatResult, TRUE>>

\* C2 amended: when the first failing size is some d > dmin, the function
\* returns d - 1; the last size at which check_shattering was called and
\* returned True is d - dstep, which is the returned value exactly when
\* dstep = 1.
C2_ReturnsDMinusOne ==
    (StoppedAtFailure /\ Last(tested)[1] > dmin) =>
        /\ fatResult = Last(tested)[1] - 1
        /\ Len(tested) >= 2
        /\ tested[Len(tested) - 1] = <<Last(tested)[1] - dstep, TRUE>>
        /\ (fatResult = Last(tested)[1] - dstep) <=> (dstep = 1)

C2_Witness ==
    /\ StoppedAtFailure
    /\ Last(tested)[1] > dmin
    /\ dstep = 2
    /\ fatResult # Last(tested)[1] - dstep

\* C3 as stated: if check_shattering returns False at the first tested size
\* d = dmin, the function returns dmin - dstep with the 'stopped at dmin'
\* warning, and completes with an integer result.
C3_Original ==
    (StoppedAtFailure /\ Last(tested)[1] = dmin) =>
        /\ fatResult = dmin - dstep
        /\ "Stopped at dmin" \in warnings
        /\ fatResult \in Int

\* C3 amended: if check_shattering returns False at the first tested size
\* d = dmin, the function returns dmin - 1 (dmin - dstep only when dstep = 1)
\* with the 'stopped at dmin' warning, and completes with an integer result.
C3_StoppedAtDmin ==
    /\ (StoppedAtFailure /\ Last(tested)[1] = dmin) =>
          /\ fatResult = dmin - 1
          /\ (fatResult = dmin - dstep) <=> (dstep = 1)
          /\ "Stopped at dmin" \in warnings
          /\ fatResult \in Int
    /\ (pc = "ret" /\ chkResult = FALSE /\ d = dmin) => ENABLED NotShattered

C3_Witness ==
    /\ StoppedAtFailure
    /\ tested = << <<dmin, FALSE>> >>
    /\ dstep = 2
    /\ fatResult = dmin - 1
    /\ "Stopped at dmin" \in warnings

\* C4: if check_shattering returns True at every tested size up to dmax, the
\* function returns exactly dmax with the 'reached dmax' warning and without
\* the 'stopped at dmin' warning.
C4_ReachedDmax ==
    (pc = "done" /\ \A k \in 1 .. Len(tested) : tested[k][2] = TRUE) =>
        /\ fatResult = dmax
        /\ "Reached dmax" \in warnings
        /\ "Stopped at dmin" \notin warnings

C4_Witness ==
    /\ pc = "done"
    /\ Len(tested) >= 2
    /\ \A k \in 1 .. Len(tested) : tested[k][2] = TRUE
    /\ fatResult = dmax

\* the fit of labeling j of offset sample s was issued and realized the labeling
FitRealized(s, j) ==
    \E k \in 1 .. Len(fits) :
        fits[k].sr = s /\ fits[k].sb = j /\ fits[k].realized

\* a fit for offset sample s was issued and did not realize its labeling
FitFailed(s) ==
    \E k \in 1 .. Len(fits) : fits[k].sr = s /\ ~fits[k].realized

\* C5: check_shattering returns True if and only if there is an offset sample
\* sr all of whose labelings sb were fitted with predictions on the right side
\* of r[sr] +- gamma at every point; it returns False only after each of the
\* Sr offset samples was tried and had a failing labeling.
C5_ExistsOffsetForAllLabelings ==
    pc = "ret" =>
        /\ chkResult \in BOOLEAN
        /\ chkResult = TRUE <=>
              \E s \in Range(Sr) : \A j \in Range(Sb) : FitRealized(s, j)
        /\ chkResult = FALSE => \A s \in Range(Sr) : FitFailed(s)

C5_Witness ==
    /\ pc = "ret"
    /\ chkResult = TRUE
    /\ Sr = 2 /\ Sb = 2
    /\ FitFailed(0)
    /\ \A j \in Range(Sb) : FitRealized(1, j)

\* C9 as stated, for a non-empty range dmin <= dmax: whenever
\* fat_shattering_dim returns through the 'reached dmax' path, check_shattering
\* was called at d = dmax and returned True.
C9_DmaxWasShattered ==
    (pc = "done" /\ "Reached dmax" \in warnings /\ dmin <= dmax) =>
        \E k \in 1 .. Len(tested) : tested[k] = <<dmax, TRUE>>

\* C10: within one check_shattering call the fits are issued in generation
\* order (sr ascending, sb ascending within sr), each pair at most once and at
\* most Sr * Sb in all; no labeling is fitted for an offset sample after one of
\* its labelings failed, and none at all after an offset sample had all its Sb
\* labelings realized.
C10_FitOrder ==
    /\ Len(fits) <= Sr * Sb
    /\ \A k \in 1 .. Len(fits) :
          /\ fits[k].sr \in Range(Sr)
          /\ fits[k].sb \in Range(Sb)
    /\ \A j, k \in 1 .. Len(fits) :
          j < k =>
              /\ \/ fits[j].sr < fits[k].sr
                 \/ fits[j].sr = fits[k].sr /\ fits[j].sb < fits[k].sb
              /\ ~fits[j].realized => fits[j].sr < fits[k].sr
              /\ ~(\A i \in Range(Sb) :
                     \E m \in 1 .. j :
                        fits[m].sr = fits[j].sr /\ fits[m].sb = i /\ fits[m].realized)
    /\ \A k \in 1 .. Len(fits) :
          \* the first fit is (0, 0); after a realized one comes the next
          \* labeling of the same offset sample, after a failed one the first
          \* labeling of the next offset sample
          IF k = 1 THEN fits[k].sr = 0 /\ fits[k].sb = 0
          ELSE IF fits[k - 1].realized
               THEN fits[k].sr = fits[k - 1].sr /\ fits[k].sb = fits[k - 1].sb + 1
               ELSE fits[k].sr = fits[k - 1].sr + 1 /\ fits[k].sb = 0

C10_Witness ==
    /\ pc = "ret"
    /\ Sr = 2 /\ Sb = 2
    /\ Len(fits) = 3
    /\ fits[1].realized /\ ~fits[2].realized /\ fits[3].sr = 1

(***************************************************************************)
(* Properties of RegressionTrainer.train (under TrainSpec).                *)
(***************************************************************************)

RECURSIVE MinOf(_)
MinOf(q) ==
    IF Len(q) = 1 THEN q[1]
    ELSE LET m == MinOf(Tail(q)) IN IF q[1] <= m THEN q[1] ELSE m

\* C6: for num_epochs >= 1, train returns the least training loss of all the
\* epochs executed, the epoch a stop criterion fired on included, when
\* best_loss is enabled, and the training loss of the last executed epoch
\* when it is disabled.
C6_FinalLoss ==
    (tpc = "done" /\ num_epochs >= 1) =>
        /\ Len(tlosses) >= 1
        /\ best_loss => final = MinOf(tlosses)
        /\ ~best_loss => final = Last(tlosses)

C6_Witness ==
    /\ tpc = "done"
    /\ best_loss
    /\ outcome = "Stopped(opt_stop)"
    /\ Len(tlosses) >= 2
    /\ final = Last(tlosses)
    /\ \A k \in 1 .. (Len(tlosses) - 1) : tlosses[k] > final

(***************************************************************************)
(* Properties of memory (under MemorySpec).                                *)
(***************************************************************************)

\* C7: memory returns a non-empty list whenever Nmax >= Nmin, and its first
\* tuple is the record for N = Nmin, whether or not the stop_count policy
\* cuts the search short.
C7_NonEmpty ==
    (mempc = "done" /\ Nmax >= Nmin) =>
        /\ Len(memList) >= 1
        /\ memList[1][1] = Nmin

C7_Witness ==
    /\ mempc = "done"
    /\ Len(memList) >= 2
    /\ Len(memList) < Nmax - Nmin + 1
    /\ memList[1][1] = Nmin

(***************************************************************************)
(* Properties of IQPEReuploadSU2Parity (under ModelSpec).                  *)
(***************************************************************************)

\* C8: the constructor, qfunction and the params setter reject a bundle whose
\* length is not 3 with a ValueError and do nothing else: no object is
\* constructed, no circuit is evaluated, and a rejected params assignment
\* leaves init_theta, theta and W as they were.
C8_RejectsBadArity ==
    [][(/\ mcall'.op \in {"__init__", "qfunction", "params.setter"}
        /\ mcall'.nparams # 3)
       => /\ mcall'.raised = ArityError
          /\ mcall'.returned = None
          /\ UNCHANGED <<constructed, init_theta, theta, W, omega>>]_vars

C8_Witness ==
    /\ constructed
    /\ mcall.op = "params.setter"
    /\ mcall.nparams = 4
    /\ mcall.raised = ArityError
    /\ <<init_theta, theta, W>> = <<2, 4, 1>>

\* C11: warm start: check_shattering and fat_shattering_dim never reset or
\* roll back the trainable parameters: a step that is not a fit leaves them
\* untouched, and every fit, across labelings, offset samples and sizes,
\* starts from exactly the parameters the previous fit left
C11_WarmStart ==
    [][/\ pc # "fit" => optParams' = optParams
       /\ pc = "fit" =>
             /\ Last(fits').start = optParams
             /\ Len(fits) >= 1 =>
                   optParams = [d |-> d, sb |-> Last(fits).sb]
             /\ Len(fits) = 0 /\ tested # <<>> /\ Sb > 0 =>
                   optParams = [d |-> Last(tested)[1], sb |-> Sb - 1]
             /\ Len(fits) = 0 /\ tested = <<>> =>
                   optParams = InitialParams]_vars

\* the first fit of a size after the first one has started from the
\* parameters the last fit of the size before left
C11_Witness ==
    /\ tested # <<>>
    /\ Len(fits) = 1
    /\ fits[1].start.d = Last(tested)[1]
    /\ fits[1].start.sb = Sb - 1
    /\ optParams = [d |-> d, sb |-> 0]

\* C12: train always terminates after at most num_epochs epochs in exactly
\* one of three outcomes, Stopped(opt_stop) at the first epoch whose training
\* loss is <= opt_stop, Stopped(stagnation) or Completed(num_epochs), and
\* runs no pass after a stop; an epoch that satisfies both the opt_stop and
\* the stagnation condition ends in Stopped(opt_stop) without a warning
\* (stated for num_epochs >= 1)
C12_ThreeOutcomes ==
    num_epochs >= 1 /\ tpc # "idle" =>
        /\ tpc # "raised"
        /\ outcome \in {"Running", "Stopped(opt_stop)", "Stopped(stagnation)",
                         "Completed"}
        /\ Len(tlosses) <= num_epochs
        /\ outcome = "Completed" => Len(tlosses) = num_epochs
        /\ outcome = "Stopped(opt_stop)" =>
              /\ Last(tlosses) <= opt_stop
              /\ \A k \in 1 .. Len(tlosses) - 1 : tlosses[k] > opt_stop
              /\ "Stopping early" \notin twarnings
        /\ outcome = "Stopped(stagnation)" => "Stopping early" \in twarnings
        /\ outcome # "Running" => ~ENABLED TrainEpoch

\* the relative decrease (prev - cur) / prev is below the stagnation threshold
RelDecreaseBelow(prev, cur) ==
    prev > 0 /\
    (prev - cur) * stagnation_threshold[2] < stagnation_threshold[1] * prev

\* the number of consecutive epochs, ending with epoch k of the losses q,
\* whose relative decrease was below the threshold; epoch 1 has no previous
\* loss and ends every run
RECURSIVE StagRun(_, _)
StagRun(q, k) ==
    IF k < 2 THEN 0
    ELSE IF RelDecreaseBelow(q[k - 1], q[k]) THEN 1 + StagRun(q, k - 1)
    ELSE 0

\* C13: the stagnation stop, with its warning, fires at an epoch exactly when
\* the relative decrease of the training loss has been below
\* stagnation_threshold for stagnation_count consecutive epochs; an epoch with
\* a decrease >= threshold resets the count to zero; the first epoch is never
\* counted, so for stagnation_count >= 1 the stop cannot occur before epoch
\* stagnation_count + 1
C13_StagnationStop ==
    LET n == Len(tlosses)
        \* the last epoch reached the stagnation test
        tested2 == n >= 2 /\ tlosses[n] > opt_stop /\ tlosses[n - 1] # 0
    IN  tpc \in {"loop", "done"} =>
        /\ (outcome = "Stopped(stagnation)") <=>
              (tested2 /\ StagRun(tlosses, n) >= stagnation_count)
        /\ (outcome = "Stopped(stagnation)") <=> ("Stopping early" \in twarnings)
        /\ tested2 => stag_counter = StagRun(tlosses, n)
        /\ tested2 /\ ~RelDecreaseBelow(tlosses[n - 1], tlosses[n]) =>
              stag_counter = 0
        /\ n = 1 => stag_counter = 0 /\ outcome # "Stopped(stagnation)"
        /\ stagnation_count >= 1 /\ outcome = "Stopped(stagnation)" =>
              n >= stagnation_count + 1

\* the stop fired at epoch 3 for a count of 1: epoch 2 had reset the count
C13_Witness ==
    /\ outcome = "Stopped(stagnation)"
    /\ stagnation_count = 1
    /\ Len(tlosses) = 3
    /\ ~RelDecreaseBelow(tlosses[1], tlosses[2])
    /\ RelDecreaseBelow(tlosses[2], tlosses[3])

\* the first epoch whose training loss is the minimum of the losses q
FirstMinEpoch(q) ==
    CHOOSE k \in 1 .. Len(q) :
        /\ q[k] = MinOf(q)
        /\ \A i \in 1 .. k - 1 : q[i] > q[k]

\* C14: with best_loss enabled, the best-training-loss checkpoint is taken at
\* the first epoch that achieved the minimum training loss and holds the
\* parameters the model had at the end of that epoch (the parameters after
\* epoch k are the k-th version); after train returns the model's parameters
\* equal that checkpoint, even when later epochs changed them
C14_BestCheckpoints ==
    tpc = "done" /\ best_loss =>
        LET k == FirstMinEpoch(tlosses)
        IN  /\ best_tparams.taken = k
            /\ saved.besttrain = k
            /\ params = saved.besttrain

\* C15: for opt_stop >= 0 (the epoch losses are non-negative) the relative
\* decrease is never evaluated with prev_loss = 0, because prev_loss is only
\* assigned a loss above opt_stop; for opt_stop < 0 an epoch loss of 0 makes
\* the stagnation test of the next epoch divide by zero
C15_DivisionByZero ==
    LET n == Len(tlosses)
    IN  tpc # "idle" =>
        /\ opt_stop >= 0 =>
              /\ outcome # "ZeroDivisionError"
              /\ prev_loss # <<>> => prev_loss[1] > opt_stop /\ prev_loss[1] # 0
        /\ prev_loss # <<>> =>
              /\ prev_loss[1] > opt_stop
              /\ \E k \in 1 .. n : prev_loss[1] = tlosses[k]
        /\ outcome = "ZeroDivisionError" =>
              opt_stop < 0 /\ n >= 2 /\ tlosses[n - 1] = 0
        /\ \A k \in 1 .. n - 1 :
              tlosses[k] = 0 =>
                 opt_stop < 0 /\ k + 1 = n /\ outcome = "ZeroDivisionError"

\* opt_stop = 0: the stagnation test of epoch 2 was evaluated with a positive
\* previous loss, and the loss 0 of epoch 3 stopped the loop
C15_Witness ==
    /\ opt_stop = 0
    /\ Len(tlosses) = 3
    /\ tlosses[3] = 0
    /\ prev_loss = <<tlosses[2]>>
    /\ outcome = "Stopped(opt_stop)"

=============================================================================
